---- MODULE Spec2Model ----
(***************************************************************************)
(* Model of the two icon generators of mobility-journey:                   *)
(*   src/desktop/generate_icons.py  (menu-bar template icon, state dots)   *)
(*   src/scripts/generate-icons.py  (app / adaptive / splash icon, favicon)*)
(*                                                                         *)
(* A canvas is the PIL image the code builds: its mode, its size, the      *)
(* color it was created with and the draw calls made on it, in order, with *)
(* the integer arguments the code computed.  Pixels are read off a canvas  *)
(* by PixelsOf, which applies PIL's rasterisation of filled ellipses and    *)
(* rectangles (both bounding-box corners inclusive).                       *)
(*                                                                         *)
(* Python floats are modelled by exact integer arithmetic: int(k * size /  *)
(* 22.0) is (k * size) \div 22, int(size * 0.35) is (size * 35) \div 100,  *)
(* and so on.  Strings are sequences of one-character strings.             *)
(***************************************************************************)
EXTENDS Integers, Sequences, FiniteSets, TLC

VARIABLES
    prog,          \* which script runs: "desktop" or "scripts"
    pc,            \* index of the next step of the script's step list
    status,        \* "running", "done" (ran to completion) or "raised" (uncaught error)
    locals,        \* the script's local variables holding canvases
    files,         \* the output directory: file name -> content
    before,        \* the output directory as it was when the script started
    color_hex,     \* create_colored_circle's color_hex argument
    parse_pc,      \* "call", "returned" or "raised"
    rgb,           \* the (r, g, b) create_colored_circle parsed
    color_main,    \* draw_spine_icon's color_main argument
    color_accent,  \* draw_spine_icon's color_accent argument
    vi,            \* draw_spine_icon's loop index i
    fills,         \* the fill of each vertebra drawn so far
    mi_job,        \* make_icon's arguments
    mi_pc,         \* make_icon's position: 0 at the call, then the index of the next draw call
    probe,         \* the pixel observed in make_icon
    img_px,        \* the RGBA canvas img at the probe
    covered,       \* whether a shape drawn so far covers the probe
    rgb_px         \* the RGB canvas rgb at the probe

vars == <<prog, pc, status, locals, files, before, color_hex, parse_pc, rgb,
          color_main, color_accent, vi, fills,
          mi_job, mi_pc, probe, img_px, covered, rgb_px>>

genVars   == <<prog, pc, status, locals, files, before>>
parseVars == <<color_hex, parse_pc, rgb>>
spineVars == <<color_main, color_accent, vi, fills>>
iconVars  == <<mi_job, mi_pc, probe, img_px, covered, rgb_px>>

----------------------------------------------------------------------------
(* Arithmetic helpers *)

Abs(n) == IF n < 0 THEN -n ELSE n

\* Python's int() of a float n/d (d > 0): truncation toward zero.
Trunc(n, d) == IF n >= 0 THEN n \div d ELSE -((-n) \div d)

Min(S) == CHOOSE m \in S : \A n \in S : m <= n
Max(S) == CHOOSE m \in S : \A n \in S : m >= n

----------------------------------------------------------------------------
(* PIL: Image.new and the ImageDraw calls the scripts make *)

Image_new(mode, size, color) ==
    [mode |-> mode, size |-> size, bg |-> color, ops |-> <<>>]

draw_ellipse(img, xy, fill) ==
    [img EXCEPT !.ops = Append(@, [kind |-> "ellipse", xy |-> xy, fill |-> fill])]

draw_rectangle(img, xy, fill) ==
    [img EXCEPT !.ops = Append(@, [kind |-> "rectangle", xy |-> xy, fill |-> fill])]

\* PIL's filled ellipse in the box [x0, y0, x1, y1]: a quarter of the outline is
\* walked from (a, b % 2) to (a % 2, b) in doubled coordinates relative to the
\* box's center (a = x1 - x0, b = y1 - y0), each step going to the neighbour
\* (up, up-left, left) nearest to the curve; row y is filled from -x to x for
\* the first point the walk reaches on that row.
QuarterDelta(a, b, x, y) == Abs(a * a * y * y + b * b * x * x - a * a * b * b)

RECURSIVE QuarterWalk(_, _, _, _)
QuarterWalk(a, b, cx, cy) ==
    IF cx = a % 2 /\ cy = b
    THEN <<<<cx, cy>>>>
    ELSE LET d1 == QuarterDelta(a, b, cx, cy + 2)
             d2 == QuarterDelta(a, b, cx - 2, cy + 2)
             d3 == QuarterDelta(a, b, cx - 2, cy)
             n1 == IF cx > 1 /\ d1 > d2 THEN <<cx - 2, cy + 2, d2>> ELSE <<cx, cy + 2, d1>>
             n2 == IF cx > 1 /\ n1[3] > d3 THEN <<cx - 2, cy>> ELSE <<n1[1], n1[2]>>
         IN  <<<<cx, cy>>>> \o QuarterWalk(a, b, n2[1], n2[2])

\* The half-width (doubled) of each row of the ellipse: row y -> the largest x
\* the walk visits on it.
EllipseRows(a, b) ==
    LET walk == QuarterWalk(a, b, a, b % 2)
        ys   == {walk[k][2] : k \in 1..Len(walk)}
    IN  [y \in ys |-> Max({walk[k][1] : k \in {j \in 1..Len(walk) : walk[j][2] = y}})]

EllipsePixels(xy) ==
    LET a    == xy[3] - xy[1]
        b    == xy[4] - xy[2]
        rows == EllipseRows(a, b)
    IN  {p \in (xy[1]..xy[3]) \X (xy[2]..xy[4]) :
            LET dx == Abs(2 * p[1] - xy[1] - xy[3])
                dy == Abs(2 * p[2] - xy[2] - xy[4])
            IN  dy \in DOMAIN rows /\ dx <= rows[dy]}

\* PIL's filled rectangle: both corners are inside the rectangle.
RectanglePixels(xy) == (xy[1]..xy[3]) \X (xy[2]..xy[4])

OpPixels(op) ==
    IF op.kind = "ellipse" THEN EllipsePixels(op.xy) ELSE RectanglePixels(op.xy)

\* All pixels of a canvas.
Pixels(img) == (0..(img.size - 1)) \X (0..(img.size - 1))

\* The raster of a canvas: each draw call overwrites the pixels it covers
\* (ImageDraw on an RGBA image stores the ink, it does not blend).
RECURSIVE Raster(_, _)
Raster(img, n) ==
    IF n = 0
    THEN [p \in Pixels(img) |-> img.bg]
    ELSE LET under == Raster(img, n - 1)
             cov   == OpPixels(img.ops[n])
         IN  [p \in Pixels(img) |-> IF p \in cov THEN img.ops[n].fill ELSE under[p]]

PixelsOf(img) == Raster(img, Len(img.ops))

----------------------------------------------------------------------------
(* src/desktop/generate_icons.py *)

\* A variant that ignores the size: the 22-pixel design at every size.
IntScale22_unscaled(k, size) == k

\* int(k * scale) with scale = size / 22.0
IntScale22(k, size) == (k * size) \div 22

\* A variant whose spine runs to 20 * scale.
template_geometry_long(size) ==
    LET head_radius   == IntScale22(3, size)
        head_center_x == size \div 2
        head_center_y == IntScale22(5, size)
        spine_width   == IntScale22(2, size)
    IN  [head_radius |-> head_radius, head_center_x |-> head_center_x,
         head_center_y |-> head_center_y, spine_width |-> spine_width,
         spine_left |-> head_center_x - spine_width \div 2,
         spine_top |-> head_center_y + head_radius,
         spine_bottom |-> IntScale22(20, size)]

template_geometry(size) ==
    LET head_radius   == IntScale22(3, size)
        head_center_x == size \div 2
        head_center_y == IntScale22(5, size)
        spine_width   == IntScale22(2, size)
        spine_left    == head_center_x - spine_width \div 2
        spine_top     == head_center_y + head_radius
        spine_bottom  == IntScale22(19, size)
    IN  [head_radius |-> head_radius, head_center_x |-> head_center_x,
         head_center_y |-> head_center_y, spine_width |-> spine_width,
         spine_left |-> spine_left, spine_top |-> spine_top,
         spine_bottom |-> spine_bottom]

create_template_icon(size) ==
    LET g    == template_geometry(size)
        img  == Image_new("RGBA", size, <<0, 0, 0, 0>>)
        head == draw_ellipse(img,
                    <<g.head_center_x - g.head_radius, g.head_center_y - g.head_radius,
                      g.head_center_x + g.head_radius, g.head_center_y + g.head_radius>>,
                    <<0, 0, 0, 255>>)
    IN  draw_rectangle(head,
            <<g.spine_left, g.spine_top, g.spine_left + g.spine_width, g.spine_bottom>>,
            <<0, 0, 0, 255>>)

----------------------------------------------------------------------------
(* Strings, and Python's str.lstrip and int(s, 16) *)

HexDigits == <<"0", "1", "2", "3", "4", "5", "6", "7", "8", "9",
               "a", "b", "c", "d", "e", "f", "A", "B", "C", "D", "E", "F">>

IsHexDigit(c) == \E k \in 1..Len(HexDigits) : HexDigits[k] = c

\* The value of a hexadecimal digit: "a".."f" and "A".."F" are 10..15.
DigitValue(c) ==
    LET k == CHOOSE j \in 1..Len(HexDigits) : HexDigits[j] = c
    IN  IF k <= 16 THEN k - 1 ELSE k - 7

\* int(s, 16) for a string s of at most two characters (a slice s[i:i+2]):
\* one or two hex digits; or a sign and a digit; or a digit with a blank
\* before or after it.  The result is <<value>>; anything else, the empty
\* string included, raises ValueError: the result is << >>.
int16(s) ==
    IF Len(s) = 1 /\ IsHexDigit(s[1]) THEN <<DigitValue(s[1])>>
    ELSE IF Len(s) = 2 /\ IsHexDigit(s[1]) /\ IsHexDigit(s[2])
         THEN <<16 * DigitValue(s[1]) + DigitValue(s[2])>>
    ELSE IF Len(s) = 2 /\ s[1] = "+" /\ IsHexDigit(s[2]) THEN <<DigitValue(s[2])>>
    ELSE IF Len(s) = 2 /\ s[1] = "-" /\ IsHexDigit(s[2]) THEN <<-DigitValue(s[2])>>
    ELSE IF Len(s) = 2 /\ s[1] = " " /\ IsHexDigit(s[2]) THEN <<DigitValue(s[2])>>
    ELSE IF Len(s) = 2 /\ IsHexDigit(s[1]) /\ s[2] = " " THEN <<DigitValue(s[1])>>
    ELSE << >>

\* s[i:j] with Python's 0-based indices, clipped to the string.
Slice(s, i, j) ==
    LET hi == IF j < Len(s) THEN j ELSE Len(s)
    IN  IF i >= hi THEN <<>> ELSE SubSeq(s, i + 1, hi)

\* A variant that strips nothing.
lstrip_none(s) == s

\* s.lstrip('#'): every leading '#' is removed.
RECURSIVE lstrip(_)
lstrip(s) == IF s # <<>> /\ Head(s) = "#" THEN lstrip(Tail(s)) ELSE s

\* Lines 55-56 of create_colored_circle: <<r, g, b>>, or << >> when one of
\* the three conversions raises.
parse_color(hex) ==
    LET stripped == lstrip(hex)
        r == int16(Slice(stripped, 0, 2))
        g == int16(Slice(stripped, 2, 4))
        b == int16(Slice(stripped, 4, 6))
    IN  IF r = << >> \/ g = << >> \/ b = << >>
        THEN << >>
        ELSE <<r[1], g[1], b[1]>>

\* A variant with the radius at 45% of the size.
circle_geometry_wide(size) ==
    [radius |-> (size * 45) \div 100, center |-> size \div 2]

circle_geometry(size) ==
    [radius |-> (size * 35) \div 100, center |-> size \div 2]

\* What a call that raised leaves in place of an image.
NoImage == [mode |-> "none"]

create_colored_circle(size, hex) ==
    LET img == Image_new("RGBA", size, <<0, 0, 0, 0>>)
        c   == parse_color(hex)
        g   == circle_geometry(size)
    IN  IF c = << >>
        THEN NoImage
        ELSE draw_ellipse(img,
                 <<g.center - g.radius, g.center - g.radius,
                   g.center + g.radius, g.center + g.radius>>,
                 <<c[1], c[2], c[3], 230>>)

\* main()'s colors dict, in insertion order, with the two file names the
\* f-strings give each color.
colors == <<
    [color_name |-> "green",  color_hex |-> <<"#", "1", "0", "b", "9", "8", "1">>,
     file_1x |-> "icon-green.png",  file_2x |-> "icon-green@2x.png"],
    [color_name |-> "yellow", color_hex |-> <<"#", "f", "5", "9", "e", "0", "b">>,
     file_1x |-> "icon-yellow.png", file_2x |-> "icon-yellow@2x.png"],
    [color_name |-> "red",    color_hex |-> <<"#", "e", "f", "4", "4", "4", "4">>,
     file_1x |-> "icon-red.png",    file_2x |-> "icon-red@2x.png"] >>

\* A variant that saves each canvas under the other's name.
ColorSteps_swapped(c) == <<
    [op |-> "circle", size |-> 22, color_hex |-> c.color_hex, var |-> "icon_1x"],
    [op |-> "circle", size |-> 44, color_hex |-> c.color_hex, var |-> "icon_2x"],
    [op |-> "save", var |-> "icon_2x", name |-> c.file_1x],
    [op |-> "save", var |-> "icon_1x", name |-> c.file_2x] >>

\* The steps of one iteration of main()'s loop over colors.
ColorSteps(c) == <<
    [op |-> "circle", size |-> 22, color_hex |-> c.color_hex, var |-> "icon_1x"],
    [op |-> "circle", size |-> 44, color_hex |-> c.color_hex, var |-> "icon_2x"],
    [op |-> "save", var |-> "icon_1x", name |-> c.file_1x],
    [op |-> "save", var |-> "icon_2x", name |-> c.file_2x] >>

\* The steps of the menu-bar generator, in program order: the module-level
\* makedirs, then main().
DesktopSteps ==
    << [op |-> "makedirs"],
       [op |-> "template", size |-> 22, var |-> "template_1x"],
       [op |-> "template", size |-> 44, var |-> "template_2x"],
       [op |-> "save", var |-> "template_1x", name |-> "iconTemplate.png"],
       [op |-> "save", var |-> "template_2x", name |-> "iconTemplate@2x.png"] >>
    \o ColorSteps(colors[1]) \o ColorSteps(colors[2]) \o ColorSteps(colors[3])

----------------------------------------------------------------------------
(* src/scripts/generate-icons.py *)

DARK_BG    == <<15, 23, 42>>
TEAL       == <<20, 184, 166>>
TEAL_LIGHT == <<94, 234, 212>>

vertebrae_count == 7

\* make_icon's scale argument (size / 1024) * content_scale, in thousandths;
\* content_scale is given in hundredths (1.0 is 100, 0.66 is 66, 0.8 is 80).
\* The division is exact for the sizes 512 and 1024 the script uses.
ScaleMilli(size, content_scale) == (size * content_scale * 10) \div 1024

\* int(k * scale)
IntScale(k, scale) == (k * scale) \div 1000

\* int(math.sin(t * math.pi * 1.2 - 0.3) * 10000) for t = i / 6, i = 0..6
SinE4 == <<-2955, 3224, 8172, 9998, 8006, 2955, -3224>>

\* x_offset = int(math.sin(t * math.pi * 1.2 - 0.3) * 40 * scale)
x_offset(i, scale) == Trunc(SinE4[i + 1] * 40 * scale, 10000000)

\* A variant with the two colors exchanged: main at t = 0, accent at t = 1.
lerp_channel_swapped(accent, main, i) ==
    ((vertebrae_count - 1) * main + (accent - main) * i) \div (vertebrae_count - 1)

\* int(accent + (main - accent) * t) with t = i / (vertebrae_count - 1); the
\* float value is never negative for channels in 0..255, so int() is floor.
lerp_channel(accent, main, i) ==
    ((vertebrae_count - 1) * accent + (main - accent) * i) \div (vertebrae_count - 1)

\* The (r, g, b) of vertebra i (lines 34-36).
vertebra_fill(main, accent, i) ==
    <<lerp_channel(accent[1], main[1], i),
      lerp_channel(accent[2], main[2], i),
      lerp_channel(accent[3], main[3], i)>>

spine_geometry(cy, scale) ==
    LET vertebra_width_base == IntScale(60, scale)
        vertebra_height     == IntScale(22, scale)
        gap                 == IntScale(8, scale)
        total_height        == vertebrae_count * (vertebra_height + gap) - gap
    IN  [vertebra_width_base |-> vertebra_width_base,
         vertebra_height |-> vertebra_height, gap |-> gap,
         total_height |-> total_height,
         start_y |-> cy - total_height \div 2]

\* The rounded_rectangle call of loop iteration i (lines 27-37).
vertebra(i, cx, cy, scale, main, accent) ==
    LET g    == spine_geometry(cy, scale)
        dist_from_center == Abs(i - vertebrae_count \div 2)
        \* int(vertebra_width_base * (1.0 - dist_from_center * 0.08))
        w    == (g.vertebra_width_base * (100 - 8 * dist_from_center)) \div 100
        y    == g.start_y + i * (g.vertebra_height + g.gap)
        x    == cx + x_offset(i, scale) - w \div 2
    IN  [kind |-> "rounded_rectangle",
         xy |-> <<x, y, x + w, y + g.vertebra_height>>,
         radius |-> (g.vertebra_height * 4) \div 10,
         fill |-> vertebra_fill(main, accent, i)]

\* The arc call for one side and one arc_size (lines 40-45).
motion_arc(side, start_angle, end_angle, arc_size, cx, cy, scale, main, accent) ==
    LET arc_cx == cx + side * IntScale(100, scale)
        s      == IntScale(arc_size, scale)
    IN  [kind |-> "arc",
         xy |-> <<arc_cx - s, cy - s, arc_cx + s, cy + s>>,
         start |-> start_angle, end |-> end_angle,
         fill |-> IF side = -1 THEN accent ELSE main,
         width |-> IntScale(4, scale)]

\* The draw calls draw_spine_icon makes, in order.
draw_spine_icon_ops(cx, cy, scale, main, accent) ==
    [i \in 1..vertebrae_count |-> vertebra(i - 1, cx, cy, scale, main, accent)]
    \o << motion_arc(-1, 140, 220, 140, cx, cy, scale, main, accent),
          motion_arc(-1, 140, 220, 110, cx, cy, scale, main, accent),
          motion_arc(-1, 140, 220, 80, cx, cy, scale, main, accent),
          motion_arc(1, -40, 40, 140, cx, cy, scale, main, accent),
          motion_arc(1, -40, 40, 110, cx, cy, scale, main, accent),
          motion_arc(1, -40, 40, 80, cx, cy, scale, main, accent) >>

draw_spine_icon(img, cx, cy, scale, main, accent) ==
    [img EXCEPT !.ops = @ \o draw_spine_icon_ops(cx, cy, scale, main, accent)]

Min2(a, b) == IF a < b THEN a ELSE b

\* The outline-only ellipse draw_circle_bg draws.
circle_bg_op(size, bg_color) ==
    LET cx     == size \div 2
        cy     == size \div 2
        radius == (size * 38) \div 100
    IN  [kind |-> "ellipse_outline",
         xy |-> <<cx - radius, cy - radius, cx + radius, cy + radius>>,
         outline |-> <<Min2(255, bg_color[1] + 20), Min2(255, bg_color[2] + 25),
                       Min2(255, bg_color[3] + 35)>>,
         width |-> (size * 15) \div 1000]

draw_circle_bg(img, size, bg_color) ==
    [img EXCEPT !.ops = Append(@, circle_bg_op(size, bg_color))]

\* A variant with a transparent background.
make_icon_background_transparent == DARK_BG \o <<0>>

\* The color make_icon creates the RGBA canvas with (line 57).
make_icon_background == DARK_BG \o <<255>>

\* The RGBA canvas make_icon draws on (lines 57-61).
make_icon_render(size, content_scale, with_bg_ring) ==
    LET img  == Image_new("RGBA", size, make_icon_background)
        ring == IF with_bg_ring THEN draw_circle_bg(img, size, DARK_BG) ELSE img
    IN  draw_spine_icon(ring, size \div 2, size \div 2,
                        ScaleMilli(size, content_scale), TEAL, TEAL_LIGHT)

\* make_icon: the render pasted on an RGB canvas of DARK_BG, masked by the
\* render's own alpha band.
make_icon(size, content_scale, with_bg_ring) ==
    LET img == make_icon_render(size, content_scale, with_bg_ring)
        new == Image_new("RGB", size, DARK_BG)
    IN  [new EXCEPT !.ops = <<[kind |-> "paste", im |-> img, mask |-> "alpha"]>>]

\* Image.resize((n, n), Image.LANCZOS): a new image of the target size,
\* resampled from the given one.
resize(img, n) ==
    [mode |-> img.mode, size |-> n, bg |-> img.bg,
     ops |-> <<[kind |-> "resample", im |-> img, filter |-> "LANCZOS"]>>]

\* The steps of the app-icon generator's __main__ block, in program order.
ScriptsSteps == <<
    [op |-> "makedirs"],
    [op |-> "make_icon", size |-> 1024, content_scale |-> 100, ring |-> TRUE, var |-> "tmp"],
    [op |-> "save", var |-> "tmp", name |-> "icon.png"],
    [op |-> "make_icon", size |-> 1024, content_scale |-> 66, ring |-> FALSE, var |-> "tmp"],
    [op |-> "save", var |-> "tmp", name |-> "adaptive-icon.png"],
    [op |-> "make_icon", size |-> 1024, content_scale |-> 80, ring |-> FALSE, var |-> "tmp"],
    [op |-> "save", var |-> "tmp", name |-> "splash-icon.png"],
    [op |-> "make_icon", size |-> 512, content_scale |-> 100, ring |-> TRUE, var |-> "tmp"],
    [op |-> "resize", var |-> "tmp", size |-> 48],
    [op |-> "save", var |-> "tmp", name |-> "favicon.png"] >>

----------------------------------------------------------------------------
(* The two scripts as step lists run against an output directory *)

MaxStale == 1

Steps(p) == IF p = "desktop" THEN DesktopSteps ELSE ScriptsSteps

\* The names Image.save is given by a script.
OutputNames(p) ==
    {Steps(p)[k].name : k \in {j \in 1..Len(Steps(p)) : Steps(p)[j].op = "save"}}

\* The file names of the model: every output of either script, and one file
\* that belongs to neither.
FileNames == OutputNames("desktop") \cup OutputNames("scripts") \cup {"notes.txt"}

LocalNames == {"template_1x", "template_2x", "icon_1x", "icon_2x", "tmp"}

\* File contents: no file; a file left by something before the run; the PNG
\* encoding of a canvas (lossless); what a save that failed midway leaves.
Absent    == [kind |-> "absent"]
Stale     == [kind |-> "stale"]
Truncated == [kind |-> "truncated"]
PNG(img)  == [kind |-> "png", im |-> img]

InitialDirs ==
    {[n \in FileNames |-> IF n \in S THEN Stale ELSE Absent] :
        S \in {T \in SUBSET FileNames : Cardinality(T) <= MaxStale}}

IdleGen ==
    /\ prog = "none" /\ pc = 0 /\ status = "idle"
    /\ locals = << >> /\ files = << >> /\ before = << >>
IdleParse == color_hex = << >> /\ parse_pc = "idle" /\ rgb = << >>
IdleSpine == color_main = << >> /\ color_accent = << >> /\ vi = 0 /\ fills = << >>
IdleIcon  ==
    /\ mi_job = << >> /\ mi_pc = -1 /\ probe = << >>
    /\ img_px = << >> /\ covered = FALSE /\ rgb_px = << >>

Init ==
    /\ prog \in {"desktop", "scripts"}
    /\ pc = 1
    /\ status = "running"
    /\ locals = [v \in LocalNames |-> NoImage]
    /\ before \in InitialDirs
    /\ files = before
    /\ IdleParse /\ IdleSpine /\ IdleIcon

Running == status = "running" /\ pc <= Len(Steps(prog))
Step    == Steps(prog)[pc]

\* os.makedirs(ASSETS_DIR, exist_ok=True)
Makedirs ==
    /\ Running /\ Step.op = "makedirs"
    /\ pc' = pc + 1
    /\ UNCHANGED <<prog, status, locals, files, before>>

CreateTemplateIcon ==
    /\ Running /\ Step.op = "template"
    /\ locals' = [locals EXCEPT ![Step.var] = create_template_icon(Step.size)]
    /\ pc' = pc + 1
    /\ UNCHANGED <<prog, status, files, before>>

CreateColoredCircle ==
    /\ Running /\ Step.op = "circle"
    /\ LET img == create_colored_circle(Step.size, Step.color_hex)
       IN  IF img.mode = "none"
           THEN status' = "raised" /\ UNCHANGED <<pc, locals>>
           ELSE /\ locals' = [locals EXCEPT ![Step.var] = img]
                /\ pc' = pc + 1
                /\ UNCHANGED status
    /\ UNCHANGED <<prog, files, before>>

MakeIcon ==
    /\ Running /\ Step.op = "make_icon"
    /\ locals' = [locals EXCEPT
                    ![Step.var] = make_icon(Step.size, Step.content_scale, Step.ring)]
    /\ pc' = pc + 1
    /\ UNCHANGED <<prog, status, files, before>>

Resize ==
    /\ Running /\ Step.op = "resize"
    /\ locals' = [locals EXCEPT ![Step.var] = resize(@, Step.size)]
    /\ pc' = pc + 1
    /\ UNCHANGED <<prog, status, files, before>>

\* Image.save(path): the file holds the PNG of the canvas.
Save ==
    /\ Running /\ Step.op = "save"
    /\ files' = [files EXCEPT ![Step.name] = PNG(locals[Step.var])]
    /\ pc' = pc + 1
    /\ UNCHANGED <<prog, status, locals, before>>

\* A variant that removes what the run has written when a step raises.
Raise_rollback ==
    /\ Running
    /\ status' = "raised"
    /\ files' = before
    /\ UNCHANGED <<prog, pc, locals, before>>

\* Any step may raise (allocation, IO); nothing catches it and the process
\* exits.  A save that raises has either not touched its file or left it cut
\* short.
Raise ==
    /\ Running
    /\ status' = "raised"
    /\ IF Step.op = "save"
       THEN files' \in {files, [files EXCEPT ![Step.name] = Truncated]}
       ELSE files' = files
    /\ UNCHANGED <<prog, pc, locals, before>>

\* The step list is exhausted: the script prints its last line and exits.
Finish ==
    /\ status = "running" /\ pc = Len(Steps(prog)) + 1
    /\ status' = "done"
    /\ UNCHANGED <<prog, pc, locals, files, before>>

Next ==
    \/ (Makedirs /\ UNCHANGED <<parseVars, spineVars, iconVars>>)
    \/ (CreateTemplateIcon /\ UNCHANGED <<parseVars, spineVars, iconVars>>)
    \/ (CreateColoredCircle /\ UNCHANGED <<parseVars, spineVars, iconVars>>)
    \/ (MakeIcon /\ UNCHANGED <<parseVars, spineVars, iconVars>>)
    \/ (Resize /\ UNCHANGED <<parseVars, spineVars, iconVars>>)
    \/ (Save /\ UNCHANGED <<parseVars, spineVars, iconVars>>)
    \/ (Raise /\ UNCHANGED <<parseVars, spineVars, iconVars>>)
    \/ (Finish /\ UNCHANGED <<parseVars, spineVars, iconVars>>)

Spec == Init /\ [][Next]_vars

----------------------------------------------------------------------------
(* Claims about the generators (under Spec) *)

\* A value v1 computed at size s1, scaled by s2/s1, is within one pixel of the
\* value v2 computed at size s2:  |v1 * s2 / s1 - v2| <= 1.
Proportional(v1, s1, v2, s2) == Abs(v1 * s2 - v2 * s1) <= s1

\* Every number of two draw calls (box corners, corner radius, stroke width).
OpProportional(o1, s1, o2, s2) ==
    /\ o1.kind = o2.kind
    /\ \A c \in 1..4 : Proportional(o1.xy[c], s1, o2.xy[c], s2)
    /\ o1.kind = "rounded_rectangle" => Proportional(o1.radius, s1, o2.radius, s2)
    /\ o1.kind \in {"arc", "ellipse_outline"} => Proportional(o1.width, s1, o2.width, s2)

CanvasProportional(c1, c2) ==
    /\ Len(c1.ops) = Len(c2.ops)
    /\ \A j \in 1..Len(c1.ops) : OpProportional(c1.ops[j], c1.size, c2.ops[j], c2.size)

RecordProportional(g1, s1, g2, s2) ==
    \A f \in DOMAIN g1 : Proportional(g1[f], s1, g2[f], s2)

HasImage(v) == locals[v].mode # "none"

\* The 512 master of the favicon is in tmp, not yet resized, and icon.png holds
\* the 1024 render of the same content scale.
FaviconMasterAndIcon ==
    /\ prog = "scripts"
    /\ files["icon.png"].kind = "png"
    /\ HasImage("tmp") /\ locals["tmp"].size = 512

\* C1: for each pair of sizes requested for the same icon (22 and 44 for the
\* template icon and for the colored circle, 512 and 1024 for make_icon at
\* content scale 1.0), every coordinate computed at the smaller size, scaled
\* by the ratio of the sizes, is within one pixel of the coordinate computed
\* at the larger size.
C1_GeometryProportional ==
    /\ (prog = "desktop" /\ HasImage("template_1x") /\ HasImage("template_2x")) =>
          LET a == locals["template_1x"]
              b == locals["template_2x"]
          IN  /\ CanvasProportional(a, b)
              /\ RecordProportional(template_geometry(a.size), a.size,
                                    template_geometry(b.size), b.size)
    /\ (prog = "desktop" /\ HasImage("icon_1x") /\ HasImage("icon_2x")) =>
          LET a == locals["icon_1x"]
              b == locals["icon_2x"]
          IN  /\ CanvasProportional(a, b)
              /\ RecordProportional(circle_geometry(a.size), a.size,
                                    circle_geometry(b.size), b.size)
    /\ FaviconMasterAndIcon =>
          LET a == locals["tmp"].ops[1].im
              b == files["icon.png"].im.ops[1].im
          IN  /\ CanvasProportional(a, b)
              /\ RecordProportional(
                    spine_geometry(a.size \div 2, ScaleMilli(a.size, 100)), a.size,
                    spine_geometry(b.size \div 2, ScaleMilli(b.size, 100)), b.size)
              /\ \A i \in 0..(vertebrae_count - 1) :
                    Proportional(x_offset(i, ScaleMilli(a.size, 100)), a.size,
                                 x_offset(i, ScaleMilli(b.size, 100)), b.size)

C1_Witness ==
    /\ FaviconMasterAndIcon
    /\ locals["tmp"].ops[1].im.size = 512
    /\ files["icon.png"].im.ops[1].im.size = 1024
    /\ Len(locals["tmp"].ops[1].im.ops) = 14

EightNames ==
    {"iconTemplate.png", "iconTemplate@2x.png", "icon-green.png", "icon-green@2x.png",
     "icon-yellow.png", "icon-yellow@2x.png", "icon-red.png", "icon-red@2x.png"}

TwoXNames ==
    {"iconTemplate@2x.png", "icon-green@2x.png", "icon-yellow@2x.png", "icon-red@2x.png"}

StartedEmpty == \A n \in FileNames : before[n] = Absent

\* C2: the menu-bar generator never writes a file other than the eight named
\* ones, and after a complete run from an empty directory the directory holds
\* exactly those eight, the @2x ones 44x44 images and the others 22x22.
C2_ExactlyEightFiles ==
    prog = "desktop" =>
      /\ \A n \in FileNames : files[n] # before[n] => n \in EightNames
      /\ (status = "done" /\ StartedEmpty) =>
            /\ {n \in FileNames : files[n].kind # "absent"} = EightNames
            /\ \A n \in EightNames :
                  /\ files[n].kind = "png"
                  /\ files[n].im.mode = "RGBA"
                  /\ files[n].im.size = IF n \in TwoXNames THEN 44 ELSE 22

C2_Witness ==
    /\ prog = "desktop" /\ status = "done" /\ StartedEmpty
    /\ files["icon-red@2x.png"].kind = "png"

\* The save steps before step k, and after it.
SavesBefore(k) == {j \in 1..(k - 1) : Steps(prog)[j].op = "save"}
SavesAfter(k)  == {j \in (k + 1)..Len(Steps(prog)) : Steps(prog)[j].op = "save"}

\* C3: when a step raises, every file saved by an earlier step holds the image
\* it was given, no file of a later step has been written, and the run has
\* stopped; and no step, failing or not, changes a file saved by an earlier step.
C3_FailureKeepsEarlierFiles ==
    /\ [](status = "raised" =>
            /\ \A j \in SavesBefore(pc) :
                  /\ files[Steps(prog)[j].name].kind = "png"
                  /\ files[Steps(prog)[j].name].im.mode # "none"
            /\ \A j \in SavesAfter(pc) :
                  files[Steps(prog)[j].name] = before[Steps(prog)[j].name]
            /\ ~ENABLED Next)
    /\ [][\A j \in SavesBefore(pc) :
             files'[Steps(prog)[j].name] = files[Steps(prog)[j].name]]_vars

C3_Witness ==
    /\ status = "raised"
    /\ SavesBefore(pc) # {} /\ SavesAfter(pc) # {}
    /\ Step.op = "save" /\ files[Step.name].kind = "truncated"

----------------------------------------------------------------------------
(* Claims about the pixels of the menu-bar icons (under Spec) *)

\* The step that has just run, when it is a render of the given kind.
JustRan(op) ==
    /\ prog = "desktop" /\ status = "running"
    /\ pc > 1 /\ Steps(prog)[pc - 1].op = op

LastStep == Steps(prog)[pc - 1]

\* The palette of section 6, as (r, g, b).
PaletteRGB(hex) ==
    IF hex = <<"#", "1", "0", "b", "9", "8", "1">> THEN <<16, 185, 129>>
    ELSE IF hex = <<"#", "f", "5", "9", "e", "0", "b">> THEN <<245, 158, 11>>
    ELSE <<239, 68, 68>>

Dist2(p, c) == (p[1] - c) * (p[1] - c) + (p[2] - c) * (p[2] - c)

\* C6: in the canvas create_colored_circle returns, a pixel that is not
\* transparent is at distance at most 0.35 * size from the center pixel and is
\* (r, g, b, 230); every pixel outside the box [center - radius, center +
\* radius] has alpha 0; every pixel at distance at most radius - 1 from the
\* center is (r, g, b, 230).
C6_DotWithinRadius ==
    JustRan("circle") =>
        LET img    == locals[LastStep.var]
            n      == LastStep.size
            px     == PixelsOf(img)
            center == n \div 2
            radius == (35 * n) \div 100
            ink    == PaletteRGB(LastStep.color_hex) \o <<230>>
        IN  /\ img.size = n
            /\ \A p \in Pixels(img) :
                  /\ px[p][4] # 0 =>
                        /\ 10000 * Dist2(p, center) <= (35 * n) * (35 * n)
                        /\ px[p] = ink
                  /\ (Abs(p[1] - center) > radius \/ Abs(p[2] - center) > radius)
                        => px[p][4] = 0
                  /\ Dist2(p, center) <= (radius - 1) * (radius - 1) => px[p] = ink

C6_Witness ==
    /\ JustRan("circle") /\ LastStep.size = 44
    /\ PixelsOf(locals["icon_2x"])[<<22, 22>>] = <<239, 68, 68, 230>>
    /\ PixelsOf(locals["icon_2x"])[<<37, 22>>][4] = 230
    /\ PixelsOf(locals["icon_2x"])[<<38, 22>>][4] = 0

FilledRows(px, img) == {p[2] : p \in {q \in Pixels(img) : px[q][4] # 0}}
FilledCols(px, img, y) == {p[1] : p \in {q \in Pixels(img) : q[2] = y /\ px[q][4] # 0}}

\* C7: in the canvas create_template_icon(44) returns every pixel is
\* (0, 0, 0, 255) or has alpha 0; the filled rows are exactly 4..38: a head
\* whose rows are centered on row 10 (4..16), widest at row 10, and below it a
\* band of the same columns on every row down to row 38, the lowest filled row.
C7_Template44Pixels ==
    (JustRan("template") /\ LastStep.size = 44) =>
        LET img == locals[LastStep.var]
            px  == PixelsOf(img)
        IN  /\ \A p \in Pixels(img) : px[p] = <<0, 0, 0, 255>> \/ px[p][4] = 0
            /\ FilledRows(px, img) = 4..38
            /\ \A y \in 4..16 : FilledCols(px, img, y) = FilledCols(px, img, 20 - y)
            /\ \A y \in 4..16 : FilledCols(px, img, y) \subseteq FilledCols(px, img, 10)
            /\ FilledCols(px, img, 10) = 16..28
            /\ \A y \in 17..38 : FilledCols(px, img, y) = FilledCols(px, img, 38)
            /\ \A p \in Pixels(img) : p[2] > 38 => px[p][4] = 0

C7_Witness ==
    /\ JustRan("template") /\ LastStep.size = 44
    /\ PixelsOf(locals["template_2x"])[<<22, 38>>] = <<0, 0, 0, 255>>
    /\ PixelsOf(locals["template_2x"])[<<22, 39>>][4] = 0

\* The pixels the head's ellipse call and the spine's rectangle call fill.
HeadPixels(img)  == OpPixels(img.ops[1])
SpinePixels(img) == OpPixels(img.ops[2])

\* C9 as the specification states it: the spine is 2 * scale pixels wide,
\* symmetric about the head's center column, starts on the row below the
\* head's lowest row and ends on row 19 * scale.
C9_SpineAsSpecified ==
    JustRan("template") =>
        LET img   == locals[LastStep.var]
            scale == LastStep.size \div 22
            cols  == {p[1] : p \in SpinePixels(img)}
            rows  == {p[2] : p \in SpinePixels(img)}
            headRows == {p[2] : p \in HeadPixels(img)}
            center == LastStep.size \div 2
        IN  /\ Cardinality(cols) = 2 * scale
            /\ \A x \in cols : (2 * center - x) \in cols
            /\ Min(rows) = Max(headRows) + 1
            /\ Max(rows) = 19 * scale

\* What the code does: the spine is 2 * scale + 1 pixels wide and its first
\* row is the head's lowest row.
C9_SpineAsDrawn ==
    JustRan("template") =>
        LET img   == locals[LastStep.var]
            scale == LastStep.size \div 22
            cols  == {p[1] : p \in SpinePixels(img)}
            rows  == {p[2] : p \in SpinePixels(img)}
            headRows == {p[2] : p \in HeadPixels(img)}
            center == LastStep.size \div 2
        IN  /\ Cardinality(cols) = 2 * scale + 1
            /\ \A x \in cols : (2 * center - x) \in cols
            /\ Min(rows) = Max(headRows)
            /\ Max(rows) = 19 * scale

----------------------------------------------------------------------------
(* create_colored_circle on arbitrary color strings (SpecParse) *)

MaxLen == 7

\* The characters the strings are drawn from: the marker, two hex digits and
\* a letter that is no hex digit.
Alphabet == {"#", "1", "b", "g"}

BoundedStrings == UNION {[1..k -> Alphabet] : k \in 0..MaxLen}

\* The palette's strings, with and without the marker, and strings with a
\* sign or a blank where a digit should be.
ExtraStrings ==
    {colors[k].color_hex : k \in 1..Len(colors)}
    \cup {Tail(colors[k].color_hex) : k \in 1..Len(colors)}
    \cup { <<"+", "1", "-", "f", " ", "2">>, <<"1", " ", "0", "x", "1", "1">>,
           <<"1", "0", "b", "9", "8">>, <<"1", "0", "B", "9", "8", "1", "F", "F">> }

InitParse ==
    /\ color_hex \in BoundedStrings \cup ExtraStrings
    /\ parse_pc = "call"
    /\ rgb = << >>
    /\ IdleGen /\ IdleSpine /\ IdleIcon

\* One call of create_colored_circle(22, color_hex): it raises in the parse,
\* or returns the image, whose ellipse is filled with the parsed (r, g, b).
CallCreateColoredCircle ==
    /\ parse_pc = "call"
    /\ LET img == create_colored_circle(22, color_hex)
       IN  IF img.mode = "none"
           THEN parse_pc' = "raised" /\ rgb' = << >>
           ELSE /\ parse_pc' = "returned"
                /\ rgb' = SubSeq(img.ops[1].fill, 1, 3)
    /\ UNCHANGED <<color_hex, genVars, spineVars, iconVars>>

NextParse == CallCreateColoredCircle

SpecParse == InitParse /\ [][NextParse]_vars

\* The value of each hexadecimal digit.
Hex16 ==
    "0" :> 0 @@ "1" :> 1 @@ "2" :> 2 @@ "3" :> 3 @@ "4" :> 4 @@ "5" :> 5 @@
    "6" :> 6 @@ "7" :> 7 @@ "8" :> 8 @@ "9" :> 9 @@
    "a" :> 10 @@ "b" :> 11 @@ "c" :> 12 @@ "d" :> 13 @@ "e" :> 14 @@ "f" :> 15 @@
    "A" :> 10 @@ "B" :> 11 @@ "C" :> 12 @@ "D" :> 13 @@ "E" :> 14 @@ "F" :> 15

\* The string without its leading '#', when it has one.
Body(s) == IF s # << >> /\ s[1] = "#" THEN Tail(s) ELSE s

SixHexDigits(s) == Len(s) = 6 /\ \A k \in 1..6 : s[k] \in DOMAIN Hex16

\* C4 as the specification states it: the call raises for every string that,
\* without its leading '#', is not exactly six hexadecimal digits.
C4_InvalidColorRaises ==
    (parse_pc # "call" /\ ~SixHexDigits(Body(color_hex))) => parse_pc = "raised"

\* C8: for a string of exactly six hexadecimal digits, with or without a
\* leading '#', the call returns and the parsed triple is the value of digits
\* 1-2, of digits 3-4 and of digits 5-6, each in 0..255: the same triple with
\* and without the '#'.
C8_SixHexDigitsParse ==
    (parse_pc # "call" /\ SixHexDigits(Body(color_hex))) =>
        LET d == Body(color_hex)
        IN  /\ parse_pc = "returned"
            /\ rgb = <<16 * Hex16[d[1]] + Hex16[d[2]],
                       16 * Hex16[d[3]] + Hex16[d[4]],
                       16 * Hex16[d[5]] + Hex16[d[6]]>>
            /\ \A k \in 1..3 : rgb[k] \in 0..255
            /\ d = <<"1", "0", "b", "9", "8", "1">> => rgb = <<16, 185, 129>>
            /\ d = <<"e", "f", "4", "4", "4", "4">> => rgb = <<239, 68, 68>>

C8_Witness ==
    /\ parse_pc = "returned"
    /\ color_hex = <<"#", "e", "f", "4", "4", "4", "4">>
    /\ rgb = <<239, 68, 68>>

----------------------------------------------------------------------------
(* draw_spine_icon on arbitrary colors (SpecSpine) *)

ChannelSamples == {0, 1, 6, 255}

SpineColors ==
    {<<r, g, b>> : r \in ChannelSamples, g \in ChannelSamples, b \in ChannelSamples}
    \cup {TEAL, TEAL_LIGHT}

InitSpine ==
    /\ color_main \in SpineColors
    /\ color_accent \in SpineColors
    /\ vi = 0
    /\ fills = << >>
    /\ IdleGen /\ IdleParse /\ IdleIcon

\* One iteration of the vertebra loop, on the 1024 canvas at scale 1.0.
DrawVertebra ==
    /\ color_main # << >> /\ vi < vertebrae_count
    /\ fills' = Append(fills, vertebra(vi, 512, 512, 1000, color_main, color_accent).fill)
    /\ vi' = vi + 1
    /\ UNCHANGED <<color_main, color_accent, genVars, parseVars, iconVars>>

\* The motion arcs, after the loop: they draw no vertebra.
DrawArcs ==
    /\ color_main # << >> /\ vi = vertebrae_count
    /\ vi' = vi + 1
    /\ UNCHANGED <<color_main, color_accent, fills, genVars, parseVars, iconVars>>

NextSpine == DrawVertebra \/ DrawArcs

SpecSpine == InitSpine /\ [][NextSpine]_vars

StrictlyBetween(v, a, b) == (a < v /\ v < b) \/ (b < v /\ v < a)
Between(v, a, b) == (a <= v /\ v <= b) \/ (b <= v /\ v <= a)

\* C5 as the specification states it: vertebra 0 has the accent color, vertebra
\* 6 the main color, and each channel of vertebrae 1..5 lies strictly between
\* the accent and the main value, or equals them when they are equal.
C5_StrictlyBetween ==
    \A k \in 1..Len(fills) :
        /\ k = 1 => fills[k] = color_accent
        /\ k = vertebrae_count => fills[k] = color_main
        /\ (1 < k /\ k < vertebrae_count) =>
              \A ch \in 1..3 :
                 IF color_accent[ch] = color_main[ch]
                 THEN fills[k][ch] = color_accent[ch]
                 ELSE StrictlyBetween(fills[k][ch], color_accent[ch], color_main[ch])

\* C5 amended: vertebra 0 has the accent color, vertebra 6 the main color, and
\* each channel of vertebrae 1..5 lies between the accent and the main value,
\* ends included; strictly between when the two values differ by 6 or more,
\* as all three channels of TEAL_LIGHT and TEAL do.
C5_BetweenInclusive ==
    /\ \A ch \in 1..3 : Abs(TEAL[ch] - TEAL_LIGHT[ch]) >= 6
    /\ \A k \in 1..Len(fills) :
        /\ k = 1 => fills[k] = color_accent
        /\ k = vertebrae_count => fills[k] = color_main
        /\ (1 < k /\ k < vertebrae_count) =>
              \A ch \in 1..3 :
                 /\ Between(fills[k][ch], color_accent[ch], color_main[ch])
                 /\ Abs(color_main[ch] - color_accent[ch]) >= 6 =>
                       StrictlyBetween(fills[k][ch], color_accent[ch], color_main[ch])

C5_Witness ==
    /\ color_main = TEAL /\ color_accent = TEAL_LIGHT
    /\ Len(fills) = vertebrae_count
    /\ fills[1] = TEAL_LIGHT /\ fills[7] = TEAL
    /\ fills[4] = <<57, 209, 189>>

----------------------------------------------------------------------------
(* make_icon observed at one pixel (SpecMakeIcon) *)

GridN == 8

\* The make_icon calls of the script.
MakeIconJobs ==
    {[size |-> ScriptsSteps[k].size, content_scale |-> ScriptsSteps[k].content_scale,
      ring |-> ScriptsSteps[k].ring] :
        k \in {j \in 1..Len(ScriptsSteps) : ScriptsSteps[j].op = "make_icon"}}

\* The draw calls make_icon makes for a job, in order.
JobOps(job) == make_icon_render(job.size, job.content_scale, job.ring).ops

\* The observed pixels: a grid over the canvas, its last pixel, and the center
\* of the box of every draw call.
Probes(job) ==
    {<<(i * job.size) \div GridN, (j * job.size) \div GridN>> :
        i \in 0..(GridN - 1), j \in 0..(GridN - 1)}
    \cup {<<job.size - 1, job.size - 1>>}
    \cup {<<(JobOps(job)[k].xy[1] + JobOps(job)[k].xy[3]) \div 2,
            (JobOps(job)[k].xy[2] + JobOps(job)[k].xy[4]) \div 2>> :
            k \in 1..Len(JobOps(job))}

InBox(p, xy) == xy[1] <= p[1] /\ p[1] <= xy[3] /\ xy[2] <= p[2] /\ p[2] <= xy[4]

\* Whether a draw call covers a pixel: PIL draws inside the box it is given,
\* so a pixel outside the box is not covered; a rounded rectangle covers its
\* box but for the four corner squares of the radius; whether a pixel of a
\* corner square, of an arc's box or of the ring's box is covered is left
\* open (either).
Covers(op, p) ==
    IF ~InBox(p, op.xy) THEN {FALSE}
    ELSE IF op.kind = "rounded_rectangle" /\
            (InBox(p, <<op.xy[1] + op.radius, op.xy[2], op.xy[3] - op.radius, op.xy[4]>>)
             \/ InBox(p, <<op.xy[1], op.xy[2] + op.radius, op.xy[3], op.xy[4] - op.radius>>))
         THEN {TRUE}
    ELSE {TRUE, FALSE}

\* The ink of a draw call on an RGBA canvas: an (r, g, b) color is opaque.
Ink(op) == (IF op.kind = "ellipse_outline" THEN op.outline ELSE op.fill) \o <<255>>

\* Image.paste(im, mask): each channel is blended by the mask, 0 keeping the
\* destination and 255 taking the source.
Blend(dst, src, a) ==
    LET t == a * src + (255 - a) * dst + 128
    IN  ((t \div 256) + t) \div 256

paste_pixel(dst, src) ==
    [ch \in 1..3 |-> Blend(dst[ch], src[ch], src[4])]

InitMakeIcon ==
    /\ mi_job \in MakeIconJobs
    /\ probe \in Probes(mi_job)
    /\ mi_pc = 0
    /\ img_px = << >>
    /\ covered = FALSE
    /\ rgb_px = << >>
    /\ IdleGen /\ IdleParse /\ IdleSpine

\* img = Image.new('RGBA', (size, size), DARK_BG + (255,))
MI_New ==
    /\ mi_job # << >> /\ mi_pc = 0
    /\ img_px' = Image_new("RGBA", mi_job.size, make_icon_background).bg
    /\ mi_pc' = 1
    /\ UNCHANGED <<mi_job, probe, covered, rgb_px, genVars, parseVars, spineVars>>

\* The next draw call of draw_circle_bg and draw_spine_icon.
MI_Draw ==
    /\ mi_job # << >> /\ mi_pc >= 1 /\ mi_pc <= Len(JobOps(mi_job))
    /\ \E c \in Covers(JobOps(mi_job)[mi_pc], probe) :
          /\ img_px' = IF c THEN Ink(JobOps(mi_job)[mi_pc]) ELSE img_px
          /\ covered' = (covered \/ c)
    /\ mi_pc' = mi_pc + 1
    /\ UNCHANGED <<mi_job, probe, rgb_px, genVars, parseVars, spineVars>>

\* rgb = Image.new('RGB', (size, size), DARK_BG); rgb.paste(img, mask=img.split()[3])
MI_Paste ==
    /\ mi_job # << >> /\ mi_pc = Len(JobOps(mi_job)) + 1
    /\ rgb_px' = paste_pixel(Image_new("RGB", mi_job.size, DARK_BG).bg, img_px)
    /\ mi_pc' = mi_pc + 1
    /\ UNCHANGED <<mi_job, probe, img_px, covered, genVars, parseVars, spineVars>>

NextMakeIcon == MI_New \/ MI_Draw \/ MI_Paste

SpecMakeIcon == InitMakeIcon /\ [][NextMakeIcon]_vars

Rendered == mi_job # << >> /\ mi_pc >= 1
Returned == mi_job # << >> /\ mi_pc = Len(JobOps(mi_job)) + 2

\* C10 as the specification states it: the render's background is transparent
\* (alpha 0 wherever no shape covers), and the returned pixel is DARK_BG where
\* the render's alpha is 0 and the render's color where it is 255.
C10_TransparentRender ==
    /\ (Rendered /\ ~covered) => img_px[4] = 0
    /\ Returned =>
          /\ img_px[4] = 0 => rgb_px = DARK_BG
          /\ img_px[4] = 255 => rgb_px = SubSeq(img_px, 1, 3)

\* C10 amended: the render's background is opaque DARK_BG (alpha 255 at every
\* pixel, DARK_BG wherever no shape covers), and the returned pixel is the
\* render's color at every pixel: DARK_BG where no shape covers, the shape's
\* color where one does.
C10_OpaqueRender ==
    /\ Rendered => img_px[4] = 255
    /\ (Rendered /\ ~covered) => img_px = DARK_BG \o <<255>>
    /\ Returned =>
          /\ rgb_px = SubSeq(img_px, 1, 3)
          /\ ~covered => rgb_px = DARK_BG

C10_Witness ==
    /\ Returned /\ covered
    /\ mi_job.size = 1024 /\ mi_job.content_scale = 100
    /\ rgb_px = TEAL_LIGHT

====
